---- MODULE Spec2Model ----
(***************************************************************************)
(* Redox: the connection lifecycle of the Redox client and its command     *)
(* dispatch engine (src/src/client.cpp and the templated methods of        *)
(* client.hpp).  Three threads take part: the thread that owns the         *)
(* connection ("ctl": connect, stop, wait), a thread that submits commands *)
(* ("sub": command, commandSync) and the event loop thread ("bg":          *)
(* runEventLoop and the callbacks libev and hiredis invoke inside ev_run). *)
(* The Command class (command.hpp / command.cpp) is not part of the        *)
(* sources at hand; processReply, invoke, wait, free and freeReply_t are   *)
(* modelled from the design document.                                      *)
(***************************************************************************)
EXTENDS Integers, Sequences, FiniteSets, TLC

\* ---------------------------------------------------------------- bounds
MaxCmds == 2
\* the format_command objects that may hold one formatted buffer
MaxHolders == 4
\* the calls of submitToServer one Command may see (a repeating Command is sent
\* again at every expiry of its timer)
MaxSends == 2
\* the Commands submitted where every kind and payload of Command is submitted
MaxScheduled == 1

\* ------------------------------------------------------ program constants
NOT_YET_CONNECTED == 0
CONNECTED == 1
DISCONNECTED == 2
CONNECT_ERROR == 3
DISCONNECT_ERROR == 4
INIT_ERROR == 5

ConnectStates ==
  {NOT_YET_CONNECTED, CONNECTED, DISCONNECTED, CONNECT_ERROR, DISCONNECT_ERROR, INIT_ERROR}

NO_REPLY == "NO_REPLY"
OK_REPLY == "OK_REPLY"
ERROR_REPLY == "ERROR_REPLY"
SEND_ERROR == "SEND_ERROR"

ReplyStatuses == {NO_REPLY, OK_REPLY, ERROR_REPLY, SEND_ERROR}

Cmds == 1..MaxCmds
NoCmd == 0

\* the five mutexes of the Redox object
Locks == {"running_lock_", "connect_lock_", "exit_lock_", "queue_guard_", "free_queue_guard_"}
NoThread == "none"

\* the points of connect() at which setup can fail
InitFailures == {"ev_loop_new", "ctx_err", "attach", "set_connect_cb", "set_disconnect_cb"}

\* the format_command objects, the buffers redisvFormatCommand may allocate and
\* the lengths it may return
Holders == 1..MaxHolders
NoBuffer == "nullptr"
Buffers == {"buf1", "buf2"}
Lens == {1, 2}

VARIABLES
  connect_state_,      \* Redox::connect_state_
  running_,            \* Redox::running_
  exited_,             \* Redox::exited_
  to_exit_,            \* Redox::to_exit_
  nowait_,             \* Redox::nowait_
  evloop_,             \* Redox::evloop_ : "null" or "loop"
  ctx,                 \* the hiredis context ctx_: "none", "connecting", "connected",
                       \* "disconnecting", "freed"
  lockHolder,          \* which thread holds each mutex
  watchersStarted,     \* the three ev_async watchers are initialised and started
  sent,                \* [watcher -> BOOLEAN]: ev_async_send was called and not yet handled
  loopBroken,          \* ev_break was called in the current ev_run
  command_queue_,      \* Redox::command_queue_
  commands_to_free_,   \* Redox::commands_to_free_
  inflight,            \* commands hiredis holds a reply callback for, oldest first
  life,                \* per command: "none" (not created), "alive", "deleted"
  kind,                \* per command: "async" (command with a callback) or "sync" (commandSync)
  reply_status_,       \* Command::reply_status_
  pending_,            \* Command::pending_
  commands_created_,   \* number of Commands allocated
  commands_deleted_,   \* Redox::commands_deleted_
  ctlpc,               \* position of the controlling thread
  subpc,               \* position of the submitting thread
  subCmd,              \* the Command the submitting thread is working on
  bgpc,                \* position of the event loop thread
  connectRet,          \* what connect() returned (read once ctlpc has left connect)
  \* ---- history variables, read by the properties only
  retState,            \* the connection state connect() read when it returned
  cbCount,             \* per command: invocations of the user callback
  leftNoReply,         \* per command: times the status left NO_REPLY (or was set at refusal)
  resolvedBy,          \* per command: the path that resolved it
  submitConnected,     \* per command: the state was CONNECTED when createCommand tested running_
  atStop,              \* commands queued or in flight without a reply when stop() was called
  stopCalled,          \* the controlling thread has called stop()
  \* ---- the state-change callback given to connect()
  user_connection_callback_,  \* Redox::user_connection_callback_ is set (not empty)
  stateCalls,          \* the arguments user_connection_callback_ was invoked with, in order
  stateLog,            \* history: the values setConnectState has written, in order
  observedState,       \* history: the state runEventLoop read after connect_waiter_
  w2pc,                \* position of a second application thread that calls wait()
  \* ---- format_command (format.hpp / format.cpp): the holders of one formatted buffer
  holder,              \* per format_command object: "unused", "alive", "destroyed"
  target,              \* per object: format_command::target
  len,                 \* per object: format_command::len
  cnt,                 \* the counter **cnt the objects share
  cntFreed,            \* delete *cnt; delete cnt has run
  freed,               \* how many times free(target) has run on the buffer
  \* ---- scheduling and payload of a Command
  repeat_,             \* Command::repeat_ (0: one shot)
  after_,              \* Command::after_ (0: no delay)
  cmd_,                \* Command::cmd_: "argv" (vector of strings) or "format" (format_command)
  timer_,              \* Command::timer_: "off", or "armed" (ev_timer_start, still active)
  \* ---- a second submitting thread
  sub2pc,              \* position of the second submitting thread
  sub2Cmd,             \* the Command it is working on
  \* ---- history variables, read by the properties only
  pushLog,             \* the Commands pushed on command_queue_, in order
  popLog,              \* the Commands the event loop thread took off command_queue_, in order
  sendLog,             \* the Commands the protocol layer accepted, in order
  attempts,            \* per command: calls of submitToServer
  submitRet,           \* per command: what the last submitToServer returned (if any)
  timerStatus,         \* per command: the status at its last send from a timer
  asyncDisconnects     \* the states at which redisAsyncDisconnect was called, in order

vars == <<connect_state_, running_, exited_, to_exit_, nowait_, evloop_, ctx, lockHolder,
          watchersStarted, sent, loopBroken, command_queue_, commands_to_free_, inflight,
          life, kind, reply_status_, pending_, commands_created_, commands_deleted_,
          ctlpc, subpc, subCmd, bgpc, connectRet, retState, cbCount, leftNoReply,
          resolvedBy, submitConnected, atStop, stopCalled, user_connection_callback_,
          stateCalls, stateLog, observedState, w2pc, holder, target, len, cnt, cntFreed,
          freed, repeat_, after_, cmd_, timer_, sub2pc, sub2Cmd, pushLog, popLog, sendLog,
          attempts, submitRet, timerStatus, asyncDisconnects>>

connVars == <<connect_state_, running_, exited_, to_exit_, nowait_, evloop_, ctx>>
loopVars == <<watchersStarted, sent, loopBroken>>
queueVars == <<command_queue_, commands_to_free_, inflight>>
cmdVars == <<life, kind, reply_status_, pending_, commands_created_, commands_deleted_>>
histVars == <<retState, cbCount, leftNoReply, resolvedBy, submitConnected, atStop, stopCalled>>
stateCbVars == <<user_connection_callback_, stateCalls, stateLog>>
fmtVars == <<holder, target, len, cnt, cntFreed, freed>>
schedVars == <<repeat_, after_, cmd_, timer_>>
sub2Vars == <<sub2pc, sub2Cmd>>
sendHist == <<pushLog, popLog, sendLog, attempts, submitRet, timerStatus>>
extVars == <<schedVars, sub2Vars, sendHist, asyncDisconnects>>

Watchers == {"watcher_command_", "watcher_stop_", "watcher_free_"}

Free(l) == lockHolder[l] = NoThread

\* ------------------------------------------------------------------ Init
Init ==
  /\ connect_state_ = NOT_YET_CONNECTED
  /\ running_ = FALSE
  /\ exited_ = FALSE
  /\ to_exit_ = FALSE
  /\ nowait_ = FALSE
  /\ evloop_ = "null"
  /\ ctx = "none"
  /\ lockHolder = [l \in Locks |-> NoThread]
  /\ watchersStarted = FALSE
  /\ sent = [w \in Watchers |-> FALSE]
  /\ loopBroken = FALSE
  /\ command_queue_ = <<>>
  /\ commands_to_free_ = <<>>
  /\ inflight = <<>>
  /\ life = [c \in Cmds |-> "none"]
  /\ kind = [c \in Cmds |-> "async"]
  /\ reply_status_ = [c \in Cmds |-> NO_REPLY]
  /\ pending_ = [c \in Cmds |-> 0]
  /\ commands_created_ = 0
  /\ commands_deleted_ = 0
  /\ ctlpc = "init"
  /\ subpc = "idle"
  /\ subCmd = NoCmd
  /\ bgpc = "notstarted"
  /\ connectRet = FALSE
  /\ retState = NOT_YET_CONNECTED
  /\ cbCount = [c \in Cmds |-> 0]
  /\ leftNoReply = [c \in Cmds |-> 0]
  /\ resolvedBy = [c \in Cmds |-> "none"]
  /\ submitConnected = [c \in Cmds |-> FALSE]
  /\ atStop = {}
  /\ stopCalled = FALSE
  /\ user_connection_callback_ = FALSE
  /\ stateCalls = <<>>
  /\ stateLog = <<>>
  /\ observedState = NOT_YET_CONNECTED
  /\ w2pc = "idle"
  /\ holder = [h \in Holders |-> "unused"]
  /\ target = [h \in Holders |-> NoBuffer]
  /\ len = [h \in Holders |-> 0]
  /\ cnt = 0
  /\ cntFreed = FALSE
  /\ freed = 0
  /\ repeat_ = [c \in Cmds |-> 0]
  /\ after_ = [c \in Cmds |-> 0]
  /\ cmd_ = [c \in Cmds |-> "argv"]
  /\ timer_ = [c \in Cmds |-> "off"]
  /\ sub2pc = "idle"
  /\ sub2Cmd = NoCmd
  /\ pushLog = <<>>
  /\ popLog = <<>>
  /\ sendLog = <<>>
  /\ attempts = [c \in Cmds |-> 0]
  /\ submitRet = [c \in Cmds |-> FALSE]
  /\ timerStatus = [c \in Cmds |-> "none"]
  /\ asyncDisconnects = <<>>

\* ------------------------------------------------- helpers on Commands
\* Command::invoke: call the user callback, when there is one (commandSync
\* passes nullptr)
hasCallback(c) == kind[c] # "sync"

invoke(c, calls) == [calls EXCEPT ![c] = IF hasCallback(c) THEN @ + 1 ELSE @]

\* Command::free_memory_: command() and commandDelayed() free automatically,
\* commandSync and commandLoop leave it to the caller
free_memory_(c) == kind[c] \in {"async", "delayed"}

\* a stop() that raises the exit flag without signalling the stop watcher
stop_sent_mut(s) == s

\* Redox::stop: raise the exit flag, then signal the stop watcher
stop_sent(s) == [s EXCEPT !["watcher_stop_"] = TRUE]

\* running_waiter_.notify_one: the controlling thread is the only thread that
\* waits on it
notifyRunning(pc) == IF pc = "conn_blocked" THEN "conn_lock" ELSE pc

\* the threads blocked on exit_waiter_ inside wait()
exitWaiters ==
  {t \in {"ctl", "w2"} : (IF t = "ctl" THEN ctlpc ELSE w2pc) = "wait_blocked"}

\* std::condition_variable::notify_one: the threads one of which is unblocked
\* ("none": nobody is waiting)
notify_one(waiters) == IF waiters = {} THEN {"none"} ELSE waiters

\* exit_waiter_.notify_one as thread `me` at position pc sees it, when the
\* thread unblocked is t
notifyExit(pc, me, t) == IF me = t THEN "wait_check" ELSE pc

\* a read of Command::reply_status_ through the caller's reference; once the
\* Command has been deleted the read is of freed memory and may yield anything
statusRead(c) == IF life[c] = "alive" THEN {reply_status_[c]} ELSE ReplyStatuses

\* setConnectState as the history sees it: the value written is appended
setConnectState(log, state) == Append(log, state)

\* if (rdx->user_connection_callback_) rdx->user_connection_callback_(rdx->getConnectState()):
\* the callbacks of hiredis run on the event loop thread, the only thread that
\* writes the state once it is started, so the state read is the state just set
stateCallback(calls, state) == IF user_connection_callback_ THEN Append(calls, state) ELSE calls

\* ------------------------------------------------ the controlling thread
\* Redox::noWait(true)
noWait ==
  /\ ctlpc = "init"
  /\ nowait_ = FALSE
  /\ nowait_' = TRUE
  /\ UNCHANGED <<stateCbVars, observedState, w2pc, fmtVars, extVars,
                 connect_state_, running_, exited_, to_exit_, evloop_, ctx, lockHolder,
                 loopVars, queueVars, cmdVars, ctlpc, subpc, subCmd, bgpc, connectRet,
                 histVars>>

\* a connect() that returned true for every state but CONNECT_ERROR
connectResult_mut(state) == state # CONNECT_ERROR

\* the value connect() returns from the state it reads
connectResult(state) == state = CONNECTED

\* the predicate connect() waits for on running_waiter_
connectWaitPred == running_ \/ connect_state_ = CONNECT_ERROR

\* Redox::connect up to the start of the event loop thread: the callback is
\* stored (cb: one was given), then initEv, redisAsyncConnect, initHiredis; every
\* failure sets INIT_ERROR and returns false
connect_setup(cb) ==
  /\ ctlpc = "init"
  /\ Free("connect_lock_")
  /\ user_connection_callback_' = cb
  /\ UNCHANGED stateCalls
  /\ \E f \in InitFailures \cup {"ok"} :
       /\ evloop_' = IF f = "ev_loop_new" THEN "null" ELSE "loop"
       /\ ctx' = IF f = "ev_loop_new" THEN "none" ELSE "connecting"
       /\ IF f = "ok"
            THEN /\ bgpc' = "ev_once"
                 /\ ctlpc' = "conn_lock"
                 /\ UNCHANGED <<connect_state_, connectRet, retState, stateLog>>
            ELSE /\ connect_state_' = INIT_ERROR
                 /\ stateLog' = setConnectState(stateLog, INIT_ERROR)
                 /\ connectRet' = FALSE
                 /\ retState' = INIT_ERROR
                 /\ ctlpc' = "idle"
                 /\ UNCHANGED bgpc
  /\ UNCHANGED <<observedState, w2pc, fmtVars, extVars,
                 running_, exited_, to_exit_, nowait_, lockHolder, loopVars, queueVars,
                 cmdVars, subpc, subCmd, cbCount, leftNoReply, resolvedBy, submitConnected,
                 atStop, stopCalled>>

\* connect: unique_lock<mutex> ul(running_lock_)
connect_lock ==
  /\ ctlpc = "conn_lock"
  /\ Free("running_lock_")
  /\ lockHolder' = [lockHolder EXCEPT !["running_lock_"] = "ctl"]
  /\ ctlpc' = "conn_pred"
  /\ UNCHANGED <<stateCbVars, observedState, w2pc, fmtVars, extVars,
                 connVars, loopVars, queueVars, cmdVars, subpc, subCmd, bgpc, connectRet,
                 histVars>>

\* connect: the wait predicate takes connect_lock_ while running_lock_ is held;
\* when it is false the thread blocks on running_waiter_ and releases running_lock_
connect_pred ==
  /\ ctlpc = "conn_pred"
  /\ Free("connect_lock_")
  /\ lockHolder' = [lockHolder EXCEPT !["running_lock_"] = NoThread]
  /\ ctlpc' = IF connectWaitPred THEN "conn_ret" ELSE "conn_blocked"
  /\ UNCHANGED <<stateCbVars, observedState, w2pc, fmtVars, extVars,
                 connVars, loopVars, queueVars, cmdVars, subpc, subCmd, bgpc, connectRet,
                 histVars>>

\* connect: return getConnectState() == CONNECTED
connect_return ==
  /\ ctlpc = "conn_ret"
  /\ Free("connect_lock_")
  /\ connectRet' = connectResult(connect_state_)
  /\ retState' = connect_state_
  /\ ctlpc' = "idle"
  /\ UNCHANGED <<stateCbVars, observedState, w2pc, fmtVars, extVars,
                 connVars, lockHolder, loopVars, queueVars, cmdVars, subpc, subCmd, bgpc,
                 cbCount, leftNoReply, resolvedBy, submitConnected, atStop, stopCalled>>

\* the Commands that are queued, or sent and still without a reply
unanswered ==
  {command_queue_[i] : i \in 1..Len(command_queue_)} \cup {inflight[i] : i \in 1..Len(inflight)}

\* Redox::stop called by the application.  With evloop_ == nullptr,
\* ev_async_send dereferences a null loop and the process dies: no thread
\* takes a step after that (the event loop thread was never started).
stop ==
  /\ ctlpc = "idle"
  /\ IF evloop_ = "null"
       THEN /\ ctlpc' = "crashed"
            /\ subpc' = "crashed"
            /\ UNCHANGED <<to_exit_, sent, atStop, stopCalled>>
       ELSE /\ to_exit_' = TRUE
            /\ sent' = stop_sent(sent)
            /\ atStop' = IF running_ THEN unanswered ELSE {}
            /\ stopCalled' = TRUE
            /\ ctlpc' = "stopped"
            /\ UNCHANGED subpc
  /\ UNCHANGED <<stateCbVars, observedState, w2pc, fmtVars, extVars,
                 connect_state_, running_, exited_, nowait_, evloop_, ctx, lockHolder,
                 watchersStarted, loopBroken, queueVars, cmdVars, subCmd, bgpc,
                 connectRet, retState, cbCount, leftNoReply, resolvedBy, submitConnected>>

\* Redox::wait: exit_waiter_.wait(ul, [this] { return exited_; })
wait ==
  /\ ctlpc \in {"stopped", "wait_check"}
  /\ Free("exit_lock_")
  /\ ctlpc' = IF exited_ THEN "done" ELSE "wait_blocked"
  /\ UNCHANGED <<stateCbVars, observedState, w2pc, fmtVars, extVars,
                 connVars, lockHolder, loopVars, queueVars, cmdVars, subpc, subCmd, bgpc,
                 connectRet, histVars>>

\* a destructor that never calls stop()
dtorStops_mut(r) == FALSE

\* ~Redox: if (getRunning()) stop();
dtorStops(r) == r

\* ~Redox: `if (getRunning())`, called by the owning thread when it is in no
\* other call of the object
dtor_getRunning ==
  /\ ctlpc \in {"init", "idle", "stopped", "done"}
  /\ Free("running_lock_")
  /\ ctlpc' = IF dtorStops(running_) THEN "dtor_stop" ELSE "dtor_join"
  /\ UNCHANGED <<stateCbVars, observedState, w2pc, fmtVars, extVars,
                 connVars, lockHolder, loopVars, queueVars, cmdVars, subpc, subCmd, bgpc,
                 connectRet, histVars>>

\* ~Redox: stop()
dtor_stop ==
  /\ ctlpc = "dtor_stop"
  /\ to_exit_' = TRUE
  /\ sent' = stop_sent(sent)
  /\ ctlpc' = "dtor_join"
  /\ UNCHANGED <<stateCbVars, observedState, w2pc, fmtVars, extVars,
                 connect_state_, running_, exited_, nowait_, evloop_, ctx, lockHolder,
                 watchersStarted, loopBroken, queueVars, cmdVars, subpc, subCmd, bgpc,
                 connectRet, histVars>>

\* event_loop_thread_.joinable(): connect() has started the thread
joinable == bgpc # "notstarted"

\* ~Redox: if (joinable()) join(); if (evloop_ != nullptr) ev_loop_destroy(evloop_)
dtor_join ==
  /\ ctlpc = "dtor_join"
  /\ joinable => bgpc = "done"
  /\ evloop_' = IF evloop_ # "null" THEN "destroyed" ELSE evloop_
  /\ ctlpc' = "destroyed"
  /\ UNCHANGED <<stateCbVars, observedState, w2pc, fmtVars, extVars,
                 connect_state_, running_, exited_, to_exit_, nowait_, ctx, lockHolder,
                 loopVars, queueVars, cmdVars, subpc, subCmd, bgpc, connectRet, histVars>>

dtorStep == dtor_getRunning \/ dtor_stop \/ dtor_join

\* Redox::wait called by a second application thread
wait2 ==
  /\ w2pc \in {"idle", "wait_check"}
  /\ Free("exit_lock_")
  /\ w2pc' = IF exited_ THEN "done" ELSE "wait_blocked"
  /\ UNCHANGED <<stateCbVars, observedState, fmtVars, extVars,
                 connVars, lockHolder, loopVars, queueVars, cmdVars, ctlpc, subpc, subCmd,
                 bgpc, connectRet, histVars>>

ctlStep == noWait \/ connect_setup(FALSE) \/ connect_lock \/ connect_pred \/ connect_return
             \/ stop \/ wait

\* ------------------------------------------------- the submitting thread
\* a createCommand that refused every submission
refused_mut(run) == TRUE

\* a createCommand that admitted every submission
refused_never(run) == FALSE

\* createCommand: if (!running_)
refused(run) == ~run

\* Redox::createCommand, from `new Command` to the test of running_ under
\* running_lock_.  Not running: status SEND_ERROR, with the lock still held
\* for the invoke that follows.  Running: the lock is released.
\* k = "async" is command(cmd, callback); k = "sync" is commandSync(cmd);
\* k = "loop" is commandLoop(cmd, callback, rep, aft); k = "delayed" is
\* commandDelayed(cmd, callback, aft).  p is the payload: a vector of strings
\* ("argv") or a format_command ("format").
createCommand_check(k, p, rep, aft) ==
  /\ subpc = "idle"
  /\ commands_created_ < MaxCmds
  /\ Free("running_lock_")
  /\ LET c == commands_created_ + 1 IN
       /\ commands_created_' = c
       /\ life' = [life EXCEPT ![c] = "alive"]
       /\ kind' = [kind EXCEPT ![c] = k]
       /\ cmd_' = [cmd_ EXCEPT ![c] = p]
       /\ repeat_' = [repeat_ EXCEPT ![c] = rep]
       /\ after_' = [after_ EXCEPT ![c] = aft]
       /\ subCmd' = c
       /\ submitConnected' = [submitConnected EXCEPT ![c] = (connect_state_ = CONNECTED)]
       /\ IF refused(running_)
            THEN /\ reply_status_' = [reply_status_ EXCEPT ![c] = SEND_ERROR]
                 /\ leftNoReply' = [leftNoReply EXCEPT ![c] = @ + 1]
                 /\ resolvedBy' = [resolvedBy EXCEPT ![c] = "refused"]
                 /\ lockHolder' = [lockHolder EXCEPT !["running_lock_"] = "sub"]
                 /\ subpc' = "cc_invoke"
            ELSE /\ subpc' = "cc_push"
                 /\ UNCHANGED <<reply_status_, leftNoReply, resolvedBy, lockHolder>>
  /\ UNCHANGED <<stateCbVars, observedState, w2pc, fmtVars, timer_, sub2Vars, sendHist,
                 asyncDisconnects,
                 connVars, loopVars, queueVars, pending_, commands_deleted_,
                 ctlpc, bgpc, connectRet, retState, cbCount, atStop, stopCalled>>

\* createCommand, not running: c->invoke(); return *c; the unique_lock on
\* running_lock_ is released by the return
createCommand_refuse ==
  /\ subpc = "cc_invoke"
  /\ cbCount' = invoke(subCmd, cbCount)
  /\ lockHolder' = [lockHolder EXCEPT !["running_lock_"] = NoThread]
  /\ subpc' = IF kind[subCmd] = "sync" THEN "sync_check" ELSE "idle"
  /\ UNCHANGED <<stateCbVars, observedState, w2pc, fmtVars, extVars,
                 connVars, loopVars, queueVars, cmdVars, ctlpc, subCmd, bgpc, connectRet,
                 retState, leftNoReply, resolvedBy, submitConnected, atStop, stopCalled>>

\* std::queue: push, front and pop of command_queue_
push(q, c) == Append(q, c)

\* a queue whose front is the element pushed last
front_mut(q) == q[Len(q)]

front(q) == Head(q)

pop(q) == Tail(q)

\* while (!q.empty()) { c = q.front(); q.pop(); ... }: the Commands taken, in order
RECURSIVE drained(_)
drained(q) == IF q = <<>> THEN <<>> ELSE <<front(q)>> \o drained(pop(q))

\* createCommand after the test: status NO_REPLY, push under queue_guard_,
\* ev_async_send(watcher_command_), return the Command
createCommand_push ==
  /\ subpc = "cc_push"
  /\ Free("queue_guard_")
  /\ reply_status_' = [reply_status_ EXCEPT ![subCmd] = NO_REPLY]
  /\ command_queue_' = push(command_queue_, subCmd)
  /\ pushLog' = Append(pushLog, subCmd)
  /\ sent' = [sent EXCEPT !["watcher_command_"] = TRUE]
  /\ subpc' = IF kind[subCmd] = "sync" THEN "sync_check" ELSE "idle"
  /\ UNCHANGED <<stateCbVars, observedState, w2pc, fmtVars, schedVars, sub2Vars, popLog,
                 sendLog, attempts, submitRet, timerStatus, asyncDisconnects,
                 connVars, lockHolder, watchersStarted, loopBroken, commands_to_free_,
                 inflight, life, kind, pending_, commands_created_, commands_deleted_,
                 ctlpc, subCmd, bgpc, connectRet, histVars>>

\* commandSync: if (c.status() == NO_REPLY) c.wait(); return c.
\* Command::wait blocks until the status has left NO_REPLY.
commandSync_wait ==
  /\ subpc = "sync_check"
  /\ \E st \in statusRead(subCmd) :
       subpc' = IF st = NO_REPLY THEN "sync_blocked" ELSE "sync_ret"
  /\ UNCHANGED <<stateCbVars, observedState, w2pc, fmtVars, extVars,
                 connVars, lockHolder, loopVars, queueVars, cmdVars, ctlpc, subCmd, bgpc,
                 connectRet, histVars>>

\* the caller of commandSync releases the Command it was given: Command::free
\* pushes it on commands_to_free_ and signals watcher_free_
Command_free ==
  /\ subpc = "sync_ret"
  /\ Free("free_queue_guard_")
  /\ commands_to_free_' = Append(commands_to_free_, subCmd)
  /\ sent' = [sent EXCEPT !["watcher_free_"] = TRUE]
  /\ subpc' = "idle"
  /\ UNCHANGED <<stateCbVars, observedState, w2pc, fmtVars, extVars,
                 connVars, lockHolder, watchersStarted, loopBroken, command_queue_,
                 inflight, cmdVars, ctlpc, subCmd, bgpc, connectRet, histVars>>

subStep == (\E k \in {"async", "sync"} : createCommand_check(k, "argv", 0, 0))
             \/ createCommand_refuse
             \/ createCommand_push \/ commandSync_wait \/ Command_free

\* a second thread that calls command(cmd, callback): createCommand up to the
\* test of running_
createCommand2_check ==
  /\ sub2pc = "idle"
  /\ commands_created_ < MaxCmds
  /\ Free("running_lock_")
  /\ LET c == commands_created_ + 1 IN
       /\ commands_created_' = c
       /\ life' = [life EXCEPT ![c] = "alive"]
       /\ kind' = [kind EXCEPT ![c] = "async"]
       /\ cmd_' = [cmd_ EXCEPT ![c] = "argv"]
       /\ repeat_' = [repeat_ EXCEPT ![c] = 0]
       /\ after_' = [after_ EXCEPT ![c] = 0]
       /\ sub2Cmd' = c
       /\ submitConnected' = [submitConnected EXCEPT ![c] = (connect_state_ = CONNECTED)]
       /\ IF refused(running_)
            THEN /\ reply_status_' = [reply_status_ EXCEPT ![c] = SEND_ERROR]
                 /\ leftNoReply' = [leftNoReply EXCEPT ![c] = @ + 1]
                 /\ resolvedBy' = [resolvedBy EXCEPT ![c] = "refused"]
                 /\ lockHolder' = [lockHolder EXCEPT !["running_lock_"] = "sub2"]
                 /\ sub2pc' = "cc_invoke"
            ELSE /\ sub2pc' = "cc_push"
                 /\ UNCHANGED <<reply_status_, leftNoReply, resolvedBy, lockHolder>>
  /\ UNCHANGED <<stateCbVars, observedState, w2pc, fmtVars, timer_, sendHist,
                 asyncDisconnects, connVars, loopVars, queueVars, pending_,
                 commands_deleted_, ctlpc, subpc, subCmd, bgpc, connectRet, retState,
                 cbCount, atStop, stopCalled>>

\* the second thread, not running: c->invoke(); return *c
createCommand2_refuse ==
  /\ sub2pc = "cc_invoke"
  /\ cbCount' = invoke(sub2Cmd, cbCount)
  /\ lockHolder' = [lockHolder EXCEPT !["running_lock_"] = NoThread]
  /\ sub2pc' = "idle"
  /\ UNCHANGED <<stateCbVars, observedState, w2pc, fmtVars, schedVars, sub2Cmd, sendHist,
                 asyncDisconnects, connVars, loopVars, queueVars, cmdVars, ctlpc, subpc,
                 subCmd, bgpc, connectRet, retState, leftNoReply, resolvedBy,
                 submitConnected, atStop, stopCalled>>

\* the second thread, running: push under queue_guard_ and signal
createCommand2_push ==
  /\ sub2pc = "cc_push"
  /\ Free("queue_guard_")
  /\ reply_status_' = [reply_status_ EXCEPT ![sub2Cmd] = NO_REPLY]
  /\ command_queue_' = push(command_queue_, sub2Cmd)
  /\ pushLog' = Append(pushLog, sub2Cmd)
  /\ sent' = [sent EXCEPT !["watcher_command_"] = TRUE]
  /\ sub2pc' = "idle"
  /\ UNCHANGED <<stateCbVars, observedState, w2pc, fmtVars, schedVars, sub2Cmd, popLog,
                 sendLog, attempts, submitRet, timerStatus, asyncDisconnects,
                 connVars, lockHolder, watchersStarted, loopBroken, commands_to_free_,
                 inflight, life, kind, pending_, commands_created_, commands_deleted_,
                 ctlpc, subpc, subCmd, bgpc, connectRet, histVars>>

sub2Step == createCommand2_check \/ createCommand2_refuse \/ createCommand2_push

\* ------------------------------------------------- the event loop thread
Range(seq) == {seq[i] : i \in 1..Len(seq)}

\* the state connectedCallback sets for a hiredis status (ok: status == REDIS_OK)
connectedState(ok) == IF ok THEN CONNECTED ELSE CONNECT_ERROR

\* a disconnectedCallback that recorded a failed disconnect as CONNECT_ERROR
disconnectedState_mut(ok) == IF ok THEN DISCONNECTED ELSE CONNECT_ERROR

\* the state disconnectedCallback sets for a hiredis status
disconnectedState(ok) == IF ok THEN DISCONNECTED ELSE DISCONNECT_ERROR

\* Command::processReply applied to the Commands of seq, each with pending
\* count pend[c] on entry and the status st recorded for it: invoke, pending_--,
\* wake the waiter, and hand a one-shot Command with free_memory_ set and no
\* send pending to Command::free (push on commands_to_free_, signal watcher_free_).
recordedStatus(c, st) == IF st = "null" THEN ERROR_REPLY ELSE st

\* a repeating Command is never handed to Command::free by processReply
autoFreed(seq, pend) ==
  SelectSeq(seq, LAMBDA c : repeat_[c] = 0 /\ free_memory_(c) /\ pend[c] - 1 = 0)

\* how many replies of seq are for c (a repeating Command may be in flight
\* more than once)
Count(seq, c) == Cardinality({i \in 1..Len(seq) : seq[i] = c})

processReply_pending(seq, pend) ==
  [c \in Cmds |-> pend[c] - Count(seq, c)]

processReply_cb(seq) ==
  [c \in Cmds |-> IF hasCallback(c) THEN cbCount[c] + Count(seq, c) ELSE cbCount[c]]

processReply_wake(seq) ==
  IF subpc = "sync_blocked" /\ subCmd \in Range(seq) THEN "sync_check" ELSE subpc

processReply_sent(seq, pend, s) ==
  IF autoFreed(seq, pend) # <<>> THEN [s EXCEPT !["watcher_free_"] = TRUE] ELSE s

\* the event loop thread is inside ev_run and not inside a watcher callback
inEvRun ==
  /\ bgpc \in {"ev_loop", "ev_drain1", "ev_drain2"}
  /\ lockHolder["queue_guard_"] # "bg"

\* runEventLoop: ev_run(evloop_, EVRUN_ONCE): hiredis reports the outcome of the
\* connection attempt through connectedCallback
runEventLoop_once ==
  /\ bgpc = "ev_once"
  /\ Free("connect_lock_")
  /\ \E ok \in BOOLEAN :
       /\ connect_state_' = connectedState(ok)
       /\ stateLog' = setConnectState(stateLog, connectedState(ok))
       /\ stateCalls' = stateCallback(stateCalls, connectedState(ok))
       /\ ctx' = IF ok THEN "connected" ELSE "freed"
  /\ bgpc' = "ev_nowait"
  /\ UNCHANGED <<user_connection_callback_, observedState, w2pc, fmtVars, extVars,
                 running_, exited_, to_exit_, nowait_, evloop_, lockHolder, loopVars,
                 queueVars, cmdVars, ctlpc, subpc, subCmd, connectRet, histVars>>

\* runEventLoop: ev_run(evloop_, EVRUN_NOWAIT): nothing happens, or the server
\* has already dropped the connection and disconnectedCallback runs
runEventLoop_nowait ==
  /\ bgpc = "ev_nowait"
  /\ \/ UNCHANGED <<connect_state_, to_exit_, ctx, sent, stateLog, stateCalls>>
     \/ /\ ctx = "connected"
        /\ Free("connect_lock_")
        /\ connect_state_' = disconnectedState(FALSE)
        /\ stateLog' = setConnectState(stateLog, disconnectedState(FALSE))
        /\ stateCalls' = stateCallback(stateCalls, disconnectedState(FALSE))
        /\ to_exit_' = TRUE
        /\ sent' = stop_sent(sent)
        /\ ctx' = "freed"
  /\ bgpc' = "wait_connect"
  /\ UNCHANGED <<user_connection_callback_, observedState, w2pc, fmtVars, extVars,
                 running_, exited_, nowait_, evloop_, lockHolder, watchersStarted,
                 loopBroken, queueVars, cmdVars, ctlpc, subpc, subCmd, connectRet, histVars>>

\* a runEventLoop that gave up only on CONNECT_ERROR
connectFailed_mut(state) == state = CONNECT_ERROR

\* runEventLoop: if (connect_state_ != CONNECTED)
connectFailed(state) == state # CONNECTED

\* runEventLoop: wait on connect_waiter_ under connect_lock_ until the state is
\* known; when it is not CONNECTED the lock stays held over the exit path
runEventLoop_waitConnect ==
  /\ bgpc = "wait_connect"
  /\ Free("connect_lock_")
  /\ connect_state_ # NOT_YET_CONNECTED
  /\ observedState' = connect_state_
  /\ IF connectFailed(connect_state_)
       THEN /\ lockHolder' = [lockHolder EXCEPT !["connect_lock_"] = "bg"]
            /\ bgpc' = "err_exited"
       ELSE /\ bgpc' = "watchers"
            /\ UNCHANGED lockHolder
  /\ UNCHANGED <<stateCbVars, w2pc, fmtVars, extVars,
                 connVars, loopVars, queueVars, cmdVars, ctlpc, subpc, subCmd, connectRet,
                 histVars>>

\* runEventLoop, connection error: setExited(true)
runEventLoop_errExited ==
  /\ bgpc = "err_exited"
  /\ Free("exit_lock_")
  /\ exited_' = TRUE
  /\ \E t \in notify_one(exitWaiters) :
       /\ ctlpc' = notifyExit(ctlpc, "ctl", t)
       /\ w2pc' = notifyExit(w2pc, "w2", t)
  /\ bgpc' = "err_running"
  /\ UNCHANGED <<stateCbVars, observedState, fmtVars, extVars,
                 connect_state_, running_, to_exit_, nowait_, evloop_, ctx, lockHolder,
                 loopVars, queueVars, cmdVars, subpc, subCmd, connectRet, histVars>>

\* runEventLoop, connection error: setRunning(false); return (connect_lock_ released)
runEventLoop_errRunning ==
  /\ bgpc = "err_running"
  /\ Free("running_lock_")
  /\ running_' = FALSE
  /\ ctlpc' = notifyRunning(ctlpc)
  /\ lockHolder' = [lockHolder EXCEPT !["connect_lock_"] = NoThread]
  /\ bgpc' = "done"
  /\ UNCHANGED <<stateCbVars, observedState, w2pc, fmtVars, extVars,
                 connect_state_, exited_, to_exit_, nowait_, evloop_, ctx, loopVars,
                 queueVars, cmdVars, subpc, subCmd, connectRet, histVars>>

\* runEventLoop: ev_async_init and ev_async_start of the three watchers
runEventLoop_watchers ==
  /\ bgpc = "watchers"
  /\ watchersStarted' = TRUE
  /\ sent' = [w \in Watchers |-> FALSE]
  /\ bgpc' = "set_running"
  /\ UNCHANGED <<stateCbVars, observedState, w2pc, fmtVars, extVars,
                 connVars, lockHolder, loopBroken, queueVars, cmdVars, ctlpc, subpc, subCmd,
                 connectRet, histVars>>

\* runEventLoop: setRunning(true)
runEventLoop_setRunning ==
  /\ bgpc = "set_running"
  /\ Free("running_lock_")
  /\ running_' = TRUE
  /\ ctlpc' = notifyRunning(ctlpc)
  /\ bgpc' = "loop_check"
  /\ UNCHANGED <<stateCbVars, observedState, w2pc, fmtVars, extVars,
                 connect_state_, exited_, to_exit_, nowait_, evloop_, ctx, lockHolder,
                 loopVars, queueVars, cmdVars, subpc, subCmd, connectRet, histVars>>

\* runEventLoop: while (!to_exit_) ev_run(...)
runEventLoop_loop ==
  /\ bgpc = "loop_check"
  /\ bgpc' = IF to_exit_ THEN "free_all" ELSE "ev_loop"
  /\ loopBroken' = FALSE
  /\ UNCHANGED <<stateCbVars, observedState, w2pc, fmtVars, extVars,
                 connVars, lockHolder, watchersStarted, sent, queueVars, cmdVars, ctlpc,
                 subpc, subCmd, connectRet, histVars>>

\* ev_run returns: a pass with EVRUN_NOWAIT returns when it has handled what was
\* pending, a blocking ev_run returns only after ev_break
ev_run_return ==
  /\ inEvRun
  /\ bgpc = "ev_loop" => (nowait_ \/ loopBroken)
  /\ bgpc' = CASE bgpc = "ev_loop" -> "loop_check"
               [] bgpc = "ev_drain1" -> "disc_check"
               [] bgpc = "ev_drain2" -> "set_exited"
  /\ UNCHANGED <<stateCbVars, observedState, w2pc, fmtVars, extVars,
                 connVars, lockHolder, loopVars, queueVars, cmdVars, ctlpc, subpc, subCmd,
                 connectRet, histVars>>

\* breakEventLoop, the callback of watcher_stop_
breakEventLoop ==
  /\ inEvRun
  /\ watchersStarted /\ sent["watcher_stop_"]
  /\ sent' = [sent EXCEPT !["watcher_stop_"] = FALSE]
  /\ loopBroken' = TRUE
  /\ UNCHANGED <<stateCbVars, observedState, w2pc, fmtVars, extVars,
                 connVars, lockHolder, watchersStarted, queueVars, cmdVars, ctlpc, subpc,
                 subCmd, bgpc, connectRet, histVars>>

\* processQueuedCommands, the callback of watcher_command_: lock_guard on
\* queue_guard_ for the whole call
processQueuedCommands_enter ==
  /\ inEvRun
  /\ watchersStarted /\ sent["watcher_command_"]
  /\ Free("queue_guard_")
  /\ sent' = [sent EXCEPT !["watcher_command_"] = FALSE]
  /\ lockHolder' = [lockHolder EXCEPT !["queue_guard_"] = "bg"]
  /\ UNCHANGED <<stateCbVars, observedState, w2pc, fmtVars, extVars,
                 connVars, watchersStarted, loopBroken, queueVars, cmdVars, ctlpc, subpc,
                 subCmd, bgpc, connectRet, histVars>>

\* what submitToServer returns once the stop flag was seen clear: true after
\* redisAsyncCommandArgv returned REDIS_OK; with a format_command the function
\* runs on to its last line, `return false`, whatever
\* redisAsyncFormattedCommand returned
submitResult(payload, sendOk) == IF payload = "argv" THEN sendOk ELSE FALSE

\* a submitToServer that never saw the stop flag
stopping_mut(flag) == FALSE

\* submitToServer: if (rdx->to_exit_)
stopping(flag) == flag

\* Redox::submitToServer(c).  sendOk: redisAsyncCommandArgv or
\* redisAsyncFormattedCommand returned REDIS_OK.
submitToServer(c, sendOk) ==
  LET pend == [pending_ EXCEPT ![c] = @ + 1] IN
  /\ attempts' = [attempts EXCEPT ![c] = @ + 1]
  /\ IF stopping(to_exit_)
       THEN \* status SEND_ERROR, then processReply(nullptr); return false
            /\ reply_status_' = [reply_status_ EXCEPT ![c] = SEND_ERROR]
            /\ pending_' = processReply_pending(<<c>>, pend)
            /\ cbCount' = processReply_cb(<<c>>)
            /\ subpc' = processReply_wake(<<c>>)
            /\ commands_to_free_' = commands_to_free_ \o autoFreed(<<c>>, pend)
            /\ sent' = processReply_sent(<<c>>, pend, sent)
            /\ leftNoReply' = [leftNoReply EXCEPT ![c] = @ + 1]
            /\ resolvedBy' = [resolvedBy EXCEPT ![c] = "stopping"]
            /\ submitRet' = [submitRet EXCEPT ![c] = FALSE]
            /\ UNCHANGED <<inflight, sendLog>>
       ELSE IF sendOk
         THEN /\ pending_' = pend
              /\ inflight' = Append(inflight, c)
              /\ sendLog' = Append(sendLog, c)
              /\ submitRet' = [submitRet EXCEPT ![c] = submitResult(cmd_[c], TRUE)]
              /\ UNCHANGED <<reply_status_, cbCount, subpc, commands_to_free_, sent,
                             leftNoReply, resolvedBy>>
         ELSE \* the protocol layer refused the command: status SEND_ERROR, invoke
              /\ pending_' = pend
              /\ reply_status_' = [reply_status_ EXCEPT ![c] = SEND_ERROR]
              /\ cbCount' = invoke(c, cbCount)
              /\ leftNoReply' = [leftNoReply EXCEPT ![c] = @ + 1]
              /\ resolvedBy' = [resolvedBy EXCEPT ![c] = "txfail"]
              /\ submitRet' = [submitRet EXCEPT ![c] = submitResult(cmd_[c], FALSE)]
              /\ UNCHANGED <<inflight, subpc, commands_to_free_, sent, sendLog>>

\* a processQueuedCommand that looked at repeat_ only
immediate_mut(c) == repeat_[c] = 0

\* processQueuedCommand: if ((c->repeat_ == 0) && (c->after_ == 0))
immediate(c) == repeat_[c] = 0 /\ after_[c] = 0

\* Redox::processQueuedCommand(c): send at once, or ev_timer_init with
\* (after_, repeat_) and ev_timer_start
processQueuedCommand(c, sendOk) ==
  IF immediate(c)
    THEN /\ submitToServer(c, sendOk)
         /\ UNCHANGED timer_
    ELSE /\ timer_' = [timer_ EXCEPT ![c] = "armed"]
         /\ UNCHANGED <<reply_status_, pending_, cbCount, subpc, commands_to_free_, sent,
                        leftNoReply, resolvedBy, inflight, sendLog, attempts, submitRet>>

\* processQueuedCommands: one turn of the loop: front, pop, processQueuedCommand_t
processQueuedCommands_pop ==
  /\ lockHolder["queue_guard_"] = "bg"
  /\ command_queue_ # <<>>
  /\ command_queue_' = pop(command_queue_)
  /\ popLog' = Append(popLog, front(command_queue_))
  /\ \E sendOk \in BOOLEAN : processQueuedCommand(front(command_queue_), sendOk)
  /\ UNCHANGED <<stateCbVars, observedState, w2pc, fmtVars, repeat_, after_, cmd_, sub2Vars,
                 pushLog, timerStatus, asyncDisconnects,
                 connVars, lockHolder, watchersStarted, loopBroken, life, kind,
                 commands_created_, commands_deleted_, ctlpc, subCmd, bgpc, connectRet,
                 retState, submitConnected, atStop, stopCalled>>

\* ev_timer with repeat 0 stops itself when it expires; with repeat > 0 it
\* stays active
afterExpiry(c) == IF repeat_[c] > 0 THEN "armed" ELSE "off"

\* Redox::submitCommandCallback, the callback of a Command's timer: the timer
\* of c expires inside ev_run
submitCommandCallback(c) ==
  /\ inEvRun
  /\ timer_[c] = "armed"
  /\ attempts[c] < MaxSends
  /\ timer_' = [timer_ EXCEPT ![c] = afterExpiry(c)]
  /\ timerStatus' = [timerStatus EXCEPT ![c] = reply_status_[c]]
  /\ \E sendOk \in BOOLEAN : submitToServer(c, sendOk)
  /\ UNCHANGED <<stateCbVars, observedState, w2pc, fmtVars, repeat_, after_, cmd_, sub2Vars,
                 pushLog, popLog, asyncDisconnects,
                 connVars, lockHolder, watchersStarted, loopBroken, command_queue_, life,
                 kind, commands_created_, commands_deleted_, ctlpc, subCmd, bgpc, connectRet,
                 retState, submitConnected, atStop, stopCalled>>

\* processQueuedCommands: the queue is empty, the lock_guard is released
processQueuedCommands_leave ==
  /\ lockHolder["queue_guard_"] = "bg"
  /\ command_queue_ = <<>>
  /\ lockHolder' = [lockHolder EXCEPT !["queue_guard_"] = NoThread]
  /\ UNCHANGED <<stateCbVars, observedState, w2pc, fmtVars, extVars,
                 connVars, loopVars, queueVars, cmdVars, ctlpc, subpc, subCmd, bgpc,
                 connectRet, histVars>>

\* freeQueuedCommands, the callback of watcher_free_: every Command of
\* commands_to_free_ is popped, its reply freed, counted and deleted
freeQueuedCommands ==
  /\ inEvRun
  /\ watchersStarted /\ sent["watcher_free_"]
  /\ Free("free_queue_guard_")
  /\ sent' = [sent EXCEPT !["watcher_free_"] = FALSE]
  /\ life' = [c \in Cmds |-> IF c \in Range(commands_to_free_) THEN "deleted" ELSE life[c]]
  /\ commands_deleted_' = commands_deleted_ + Len(commands_to_free_)
  /\ commands_to_free_' = <<>>
  /\ UNCHANGED <<stateCbVars, observedState, w2pc, fmtVars, extVars,
                 connVars, lockHolder, watchersStarted, loopBroken, command_queue_,
                 inflight, kind, reply_status_, pending_, commands_created_, ctlpc, subpc,
                 subCmd, bgpc, connectRet, histVars>>

\* Redox::commandCallback: hiredis delivers the reply of the oldest command in
\* flight (a reply that parses to the expected type).  When redisAsyncDisconnect is waiting
\* for this last reply, hiredis then disconnects and calls disconnectedCallback.
commandCallback ==
  /\ inEvRun
  /\ inflight # <<>>
  /\ ctx \in {"connected", "disconnecting"}
  /\ Free("free_queue_guard_")
  /\ Free("connect_lock_")
  /\ LET c == Head(inflight)
         last == ctx = "disconnecting" /\ Len(inflight) = 1
     IN
       /\ reply_status_' = [reply_status_ EXCEPT ![c] = recordedStatus(c, OK_REPLY)]
       /\ inflight' = Tail(inflight)
       /\ pending_' = processReply_pending(<<c>>, pending_)
       /\ cbCount' = processReply_cb(<<c>>)
       /\ subpc' = processReply_wake(<<c>>)
       /\ commands_to_free_' = commands_to_free_ \o autoFreed(<<c>>, pending_)
       /\ leftNoReply' = [leftNoReply EXCEPT ![c] = @ + 1]
       /\ resolvedBy' = [resolvedBy EXCEPT ![c] = "reply"]
       /\ IF last
            THEN /\ connect_state_' = disconnectedState(TRUE)
                 /\ stateLog' = setConnectState(stateLog, disconnectedState(TRUE))
                 /\ stateCalls' = stateCallback(stateCalls, disconnectedState(TRUE))
                 /\ to_exit_' = TRUE
                 /\ ctx' = "freed"
                 /\ sent' = stop_sent(processReply_sent(<<c>>, pending_, sent))
            ELSE /\ sent' = processReply_sent(<<c>>, pending_, sent)
                 /\ UNCHANGED <<connect_state_, to_exit_, ctx, stateLog, stateCalls>>
  /\ UNCHANGED <<user_connection_callback_, observedState, w2pc, fmtVars, extVars,
                 running_, exited_, nowait_, evloop_, lockHolder, watchersStarted,
                 loopBroken, command_queue_, life, kind, commands_created_,
                 commands_deleted_, ctlpc, subCmd, bgpc, connectRet, retState,
                 submitConnected, atStop, stopCalled>>

\* the connection breaks: hiredis calls the reply callback of every command in
\* flight with a null reply, then disconnectedCallback with an error status
serverDisconnect ==
  /\ inEvRun
  /\ ctx \in {"connected", "disconnecting"}
  /\ Free("free_queue_guard_")
  /\ Free("connect_lock_")
  /\ reply_status_' = [c \in Cmds |-> IF c \in Range(inflight)
                                        THEN recordedStatus(c, "null")
                                        ELSE reply_status_[c]]
  /\ pending_' = processReply_pending(inflight, pending_)
  /\ cbCount' = processReply_cb(inflight)
  /\ subpc' = processReply_wake(inflight)
  /\ commands_to_free_' = commands_to_free_ \o autoFreed(inflight, pending_)
  /\ leftNoReply' = [c \in Cmds |-> leftNoReply[c] + Count(inflight, c)]
  /\ resolvedBy' = [c \in Cmds |-> IF c \in Range(inflight) THEN "reply" ELSE resolvedBy[c]]
  /\ inflight' = <<>>
  /\ connect_state_' = disconnectedState(FALSE)
  /\ stateLog' = setConnectState(stateLog, disconnectedState(FALSE))
  /\ stateCalls' = stateCallback(stateCalls, disconnectedState(FALSE))
  /\ to_exit_' = TRUE
  /\ sent' = stop_sent(processReply_sent(inflight, pending_, sent))
  /\ ctx' = "freed"
  /\ UNCHANGED <<user_connection_callback_, observedState, w2pc, fmtVars, extVars,
                 running_, exited_, nowait_, evloop_, lockHolder, watchersStarted,
                 loopBroken, command_queue_, life, kind, commands_created_,
                 commands_deleted_, ctlpc, subCmd, bgpc, connectRet, retState,
                 submitConnected, atStop, stopCalled>>

\* Redox::freeAllCommands: under free_queue_guard_ and queue_guard_, every
\* Command of command_queue_ is popped, its reply freed, and deleted
freeAllCommands ==
  /\ bgpc = "free_all"
  /\ Free("free_queue_guard_")
  /\ Free("queue_guard_")
  /\ life' = [c \in Cmds |-> IF c \in Range(command_queue_) THEN "deleted" ELSE life[c]]
  /\ commands_deleted_' = commands_deleted_ + Len(command_queue_)
  /\ resolvedBy' = [c \in Cmds |-> IF c \in Range(command_queue_) THEN "drain"
                                     ELSE resolvedBy[c]]
  /\ command_queue_' = <<>>
  /\ popLog' = popLog \o drained(command_queue_)
  /\ bgpc' = "ev_drain1"
  /\ UNCHANGED <<stateCbVars, observedState, w2pc, fmtVars, schedVars, sub2Vars, pushLog, sendLog, attempts,
                 submitRet, timerStatus, asyncDisconnects,
                 connVars, lockHolder, loopVars, commands_to_free_, inflight, kind,
                 reply_status_, pending_, commands_created_, ctlpc, subpc, subCmd,
                 connectRet, retState, cbCount, leftNoReply, submitConnected, atStop,
                 stopCalled>>

\* a runEventLoop that disconnected whatever the state
stillConnected_mut(state) == TRUE

\* the test that guards redisAsyncDisconnect in runEventLoop
stillConnected(state) == state = CONNECTED

\* runEventLoop: if (getConnectState() == CONNECTED) redisAsyncDisconnect(ctx_).
\* With nothing in flight hiredis disconnects at once and calls
\* disconnectedCallback(REDIS_OK); otherwise it waits for the replies.
runEventLoop_disconnect ==
  /\ bgpc = "disc_check"
  /\ Free("connect_lock_")
  /\ IF stillConnected(connect_state_)
       THEN /\ asyncDisconnects' = Append(asyncDisconnects, connect_state_)
            /\ IF inflight = <<>>
                 THEN /\ connect_state_' = disconnectedState(TRUE)
                      /\ stateLog' = setConnectState(stateLog, disconnectedState(TRUE))
                      /\ stateCalls' = stateCallback(stateCalls, disconnectedState(TRUE))
                      /\ to_exit_' = TRUE
                      /\ sent' = stop_sent(sent)
                      /\ ctx' = "freed"
                 ELSE /\ ctx' = "disconnecting"
                      /\ UNCHANGED <<connect_state_, to_exit_, sent, stateLog, stateCalls>>
       ELSE UNCHANGED <<connect_state_, to_exit_, sent, ctx, stateLog, stateCalls,
                        asyncDisconnects>>
  /\ bgpc' = "ev_drain2"
  /\ UNCHANGED <<user_connection_callback_, observedState, w2pc, fmtVars, schedVars, sub2Vars, sendHist,
                 running_, exited_, nowait_, evloop_, lockHolder, watchersStarted,
                 loopBroken, queueVars, cmdVars, ctlpc, subpc, subCmd, connectRet, histVars>>

\* runEventLoop: setExited(true)
runEventLoop_setExited ==
  /\ bgpc = "set_exited"
  /\ Free("exit_lock_")
  /\ exited_' = TRUE
  /\ \E t \in notify_one(exitWaiters) :
       /\ ctlpc' = notifyExit(ctlpc, "ctl", t)
       /\ w2pc' = notifyExit(w2pc, "w2", t)
  /\ bgpc' = "set_not_running"
  /\ UNCHANGED <<stateCbVars, observedState, fmtVars, extVars,
                 connect_state_, running_, to_exit_, nowait_, evloop_, ctx, lockHolder,
                 loopVars, queueVars, cmdVars, subpc, subCmd, connectRet, histVars>>

\* runEventLoop: setRunning(false), the thread ends
runEventLoop_setNotRunning ==
  /\ bgpc = "set_not_running"
  /\ Free("running_lock_")
  /\ running_' = FALSE
  /\ ctlpc' = notifyRunning(ctlpc)
  /\ bgpc' = "done"
  /\ UNCHANGED <<stateCbVars, observedState, w2pc, fmtVars, extVars,
                 connect_state_, exited_, to_exit_, nowait_, evloop_, ctx, lockHolder,
                 loopVars, queueVars, cmdVars, subpc, subCmd, connectRet, histVars>>

bgStep ==
  \/ runEventLoop_once \/ runEventLoop_nowait \/ runEventLoop_waitConnect
  \/ runEventLoop_errExited \/ runEventLoop_errRunning
  \/ runEventLoop_watchers \/ runEventLoop_setRunning \/ runEventLoop_loop
  \/ ev_run_return \/ breakEventLoop
  \/ processQueuedCommands_enter \/ processQueuedCommands_pop \/ processQueuedCommands_leave
  \/ freeQueuedCommands \/ commandCallback \/ serverDisconnect
  \/ freeAllCommands \/ runEventLoop_disconnect
  \/ runEventLoop_setExited \/ runEventLoop_setNotRunning

\* ------------------------------------------------------- specification
Next == ctlStep \/ subStep \/ bgStep

Spec == Init /\ [][Next]_vars

\* the connection lifecycle alone, for an application that submits no command:
\* connect() is called with or without a state-change callback, the owning
\* thread may destroy the object, and a second thread may call wait()
ctlLifeStep ==
  \/ noWait \/ (\E cb \in BOOLEAN : connect_setup(cb)) \/ connect_lock \/ connect_pred
  \/ connect_return \/ stop \/ wait \/ dtorStep

\* the steps the event loop thread takes by itself, given the outcome of the
\* connection attempt; a loss of the connection is not among them
bgOwnStep ==
  \/ runEventLoop_once \/ runEventLoop_nowait \/ runEventLoop_waitConnect
  \/ runEventLoop_errExited \/ runEventLoop_errRunning
  \/ runEventLoop_watchers \/ runEventLoop_setRunning \/ runEventLoop_loop
  \/ ev_run_return \/ breakEventLoop
  \/ freeAllCommands \/ runEventLoop_disconnect
  \/ runEventLoop_setExited \/ runEventLoop_setNotRunning

bgLifeStep ==
  \/ runEventLoop_once \/ runEventLoop_nowait \/ runEventLoop_waitConnect
  \/ runEventLoop_errExited \/ runEventLoop_errRunning
  \/ runEventLoop_watchers \/ runEventLoop_setRunning \/ runEventLoop_loop
  \/ ev_run_return \/ breakEventLoop \/ serverDisconnect
  \/ freeAllCommands \/ runEventLoop_disconnect
  \/ runEventLoop_setExited \/ runEventLoop_setNotRunning

NextLife == ctlLifeStep \/ wait2 \/ bgLifeStep

SpecLife == Init /\ [][NextLife]_vars

\* a runnable thread is scheduled: the destructor and the event loop thread
\* each take the step they are ready to take
SpecLifeFair == SpecLife /\ WF_vars(dtorStep) /\ WF_vars(bgOwnStep)

\* the event loop thread alone is scheduled: the application may stay idle for
\* ever after connect() has returned
SpecLoopFair == SpecLife /\ WF_vars(bgOwnStep)

\* the dispatch of commands by two submitting threads that call command(); the
\* owning thread connects and may stop
ctlQueueStep == connect_setup(FALSE) \/ connect_lock \/ connect_pred \/ connect_return \/ stop

subQueueStep ==
  createCommand_check("async", "argv", 0, 0) \/ createCommand_refuse \/ createCommand_push

NextQueue == ctlQueueStep \/ subQueueStep \/ sub2Step \/ bgStep

SpecQueue == Init /\ [][NextQueue]_vars

timerStep == \E c \in Cmds : submitCommandCallback(c)

\* the sending of commands of every kind and payload by one submitting thread
Submissions ==
  {<<"async", "argv", 0, 0>>, <<"async", "format", 0, 0>>, <<"delayed", "argv", 0, 1>>,
   <<"loop", "argv", 1, 0>>, <<"loop", "format", 1, 1>>}

createCommand_any ==
  /\ commands_created_ < MaxScheduled
  /\ \E sub \in Submissions : createCommand_check(sub[1], sub[2], sub[3], sub[4])

subSendStep == createCommand_any \/ createCommand_refuse \/ createCommand_push

NextSend == ctlQueueStep \/ subSendStep \/ bgStep \/ timerStep

SpecSend == Init /\ [][NextSend]_vars

\* ------------------------------------------------------- format_command
\* the main variables, which the operations on a format_command leave alone
redoxVars == <<connVars, lockHolder, loopVars, queueVars, cmdVars, ctlpc, subpc, subCmd, bgpc,
               connectRet, histVars, stateCbVars, observedState, w2pc, extVars>>

\* a read of **cnt: once delete *cnt has run the read is of freed memory
cntRead == IF cntFreed THEN 0..MaxHolders ELSE {cnt}

\* format_command(const format_command& r): (**cnt)++
copy_cnt_mut(n) == n

copy_cnt(n) == n + 1

\* ~format_command: if (**cnt) { (**cnt)--; return; } free(target); ...
dtor_releases(n) == n = 0

\* FormatCommand: the constructor sets target nullptr, len 0 and a new counter
\* holding 0; redisvFormatCommand then stores the buffer b it allocated and
\* returns its length n
FormatCommand(b, n) ==
  /\ \A h \in Holders : holder[h] = "unused"
  /\ holder' = [holder EXCEPT ![1] = "alive"]
  /\ target' = [target EXCEPT ![1] = b]
  /\ len' = [len EXCEPT ![1] = n]
  /\ cnt' = 0
  /\ UNCHANGED <<cntFreed, freed, redoxVars>>

\* the copy constructor: h becomes a copy of the live object r
format_command_copy(r, h) ==
  /\ holder[r] = "alive"
  /\ holder[h] = "unused"
  /\ holder' = [holder EXCEPT ![h] = "alive"]
  /\ target' = [target EXCEPT ![h] = target[r]]
  /\ len' = [len EXCEPT ![h] = len[r]]
  /\ \E v \in cntRead : cnt' = copy_cnt(v)
  /\ UNCHANGED <<cntFreed, freed, redoxVars>>

\* the destructor of the live object h
format_command_dtor(h) ==
  /\ holder[h] = "alive"
  /\ holder' = [holder EXCEPT ![h] = "destroyed"]
  /\ \E v \in cntRead :
       IF dtor_releases(v)
         THEN /\ freed' = freed + 1
              /\ cntFreed' = TRUE
              /\ UNCHANGED cnt
         ELSE /\ cnt' = v - 1
              /\ UNCHANGED <<freed, cntFreed>>
  /\ UNCHANGED <<target, len, redoxVars>>

NextFmt ==
  \/ \E b \in Buffers, n \in Lens : FormatCommand(b, n)
  \/ \E r \in Holders, h \in Holders : format_command_copy(r, h)
  \/ \E h \in Holders : format_command_dtor(h)

SpecFmt == Init /\ [][NextFmt]_vars

TypeOK ==
  /\ connect_state_ \in ConnectStates
  /\ running_ \in BOOLEAN /\ exited_ \in BOOLEAN /\ to_exit_ \in BOOLEAN
  /\ commands_created_ \in 0..MaxCmds
  /\ \A c \in Cmds : reply_status_[c] \in ReplyStatuses /\ pending_[c] \in 0..MaxSends

\* ------------------------------------------------------------ properties
created(c) == life[c] # "none"

\* C1: every Command that was resolved, by whichever path (reply, send rejected
\* while stopping, transmission failure, refused submission, drain of the
\* submission queue on stop), left NO_REPLY exactly once and had its callback,
\* when it has one, invoked exactly once (createCommand, which sets the status
\* of a refused Command and then invokes, has returned); and neither happens
\* more than once.
C1_ExactlyOnce ==
  \A c \in Cmds :
    /\ leftNoReply[c] <= 1
    /\ cbCount[c] <= 1
    /\ resolvedBy[c] # "none" =>
         /\ leftNoReply[c] = 1
         /\ (hasCallback(c) /\ ~(subpc = "cc_invoke" /\ subCmd = c)) => cbCount[c] = 1

\* C2: a Command submitted while the connection state was not CONNECTED has
\* status SEND_ERROR as soon as createCommand has tested it, and is refused:
\* it is neither on its way to the submission queue nor in it.
C2_RefusedUnlessConnected ==
  \A c \in Cmds :
    (created(c) /\ ~submitConnected[c]) =>
      /\ reply_status_[c] = SEND_ERROR
      /\ resolvedBy[c] = "refused"
      /\ c \notin Range(command_queue_)

\* connect() has returned to its caller
connectReturned == ctlpc \notin {"init", "conn_lock", "conn_pred", "conn_blocked", "conn_ret"}

\* C3: connect() returns true if and only if the connection state it read when
\* it returned is CONNECTED; a setup failure (INIT_ERROR) returns false.
C3_ConnectReturn ==
  connectReturned => (connectRet <=> retState = CONNECTED)

C3_Witness ==
  /\ connectReturned
  /\ ~connectRet
  /\ retState = DISCONNECT_ERROR

\* connect() has started the event loop thread and has not returned
inConnect == ctlpc \in {"conn_lock", "conn_pred", "conn_blocked", "conn_ret"}

\* C4: a connect() that started the event loop thread returns: while the caller
\* is inside connect(), the caller or the event loop thread can take a step
\* (a state in which neither can is one the caller never leaves), or a
\* submitting thread is about to release the lock they wait for.
C4_ConnectTerminates ==
  inConnect => ENABLED (ctlStep \/ bgStep \/ createCommand_refuse)

\* C5: after connect() has returned, stop() followed by wait() terminates:
\* while the caller is between stop() and the return of wait(), the caller or
\* the event loop thread can take a step, or a submitting thread is about to
\* release the lock they wait for.
C5_StopWaitTerminates ==
  (stopCalled /\ ctlpc \in {"stopped", "wait_check", "wait_blocked"}) =>
    ENABLED (ctlStep \/ bgStep \/ createCommand_refuse)

\* C6: when the event loop thread, after stop, compares the counters before
\* it marks itself exited, as many Commands have been freed as were created.
C6_NoLeakAtExit ==
  (bgpc = "set_exited" /\ stopCalled) => commands_created_ = commands_deleted_

\* C7: once the event loop thread has ended after stop(), every Command that
\* was queued or in flight when stop() was called, and got no reply from the
\* server since, has status SEND_ERROR and had its callback invoked once.
C7_StopResolves ==
  (bgpc = "done" /\ stopCalled) =>
    \A c \in atStop :
      resolvedBy[c] # "reply" =>
        /\ reply_status_[c] = SEND_ERROR
        /\ hasCallback(c) => cbCount[c] = 1

\* C8: a Command that freeAllCommands took from the submission queue has status
\* SEND_ERROR and had its callback invoked.
C8_DrainResolves ==
  \A c \in Cmds :
    resolvedBy[c] = "drain" =>
      /\ reply_status_[c] = SEND_ERROR
      /\ hasCallback(c) => cbCount[c] = 1

\* C9: when commandSync has returned a Command, its status is not NO_REPLY.
C9_SyncTerminal ==
  subpc = "sync_ret" => reply_status_[subCmd] # NO_REPLY

\* the transitions the connection state may make
StateEdges ==
  {<<NOT_YET_CONNECTED, CONNECTED>>, <<NOT_YET_CONNECTED, CONNECT_ERROR>>,
   <<NOT_YET_CONNECTED, INIT_ERROR>>, <<CONNECTED, DISCONNECTED>>,
   <<CONNECTED, DISCONNECT_ERROR>>}

C11_StateCallback ==
  user_connection_callback_ => stateCalls = stateLog

\* the objects that hold the formatted buffer
alive == {h \in Holders : holder[h] = "alive"}

\* C12: the buffer of a format_command is released at most once; it has been
\* released exactly when an object was created and none is alive any more (at
\* the destruction of the last holder, not earlier); the counter is freed with
\* it; and all live holders have the target and len FormatCommand produced.
C12_ReleasedOnce ==
  /\ freed <= 1
  /\ freed = 1 <=> (holder[1] # "unused" /\ alive = {})
  /\ cntFreed <=> freed = 1
  /\ \A h \in alive : target[h] = target[1] /\ len[h] = len[1] /\ target[h] \in Buffers

C12_Witness ==
  /\ freed = 1
  /\ \A h \in Holders : holder[h] = "destroyed"

\* C13: in every step in which a user callback is invoked, the thread that
\* invokes it (the submitting thread inside createCommand, the event loop thread
\* otherwise) holds none of the five locks.
C13_NoLockInCallback ==
  [][\A c \in Cmds :
       cbCount'[c] > cbCount[c] =>
         LET invoker == IF subpc = "cc_invoke" /\ subpc' # "cc_invoke" THEN "sub" ELSE "bg"
         IN \A l \in Locks : lockHolder[l] # invoker]_vars

\* C14: every step that destroys a Command is freeQueuedCommands: it runs on
\* the event loop thread inside ev_run, in answer to watcher_free_, and the
\* Command it destroys was on the reclamation queue.
C14_SingleDestroyer ==
  [][\A c \in Cmds :
       (life[c] = "alive" /\ life'[c] = "deleted") =>
         /\ c \in Range(commands_to_free_)
         /\ inEvRun /\ sent["watcher_free_"]]_vars

\* the submitting thread is inside commandSync, or has its result and has not
\* called free() on it
holdsReference ==
  /\ subpc \in {"cc_invoke", "cc_push", "sync_check", "sync_blocked", "sync_ret"}
  /\ kind[subCmd] = "sync"

\* C15: a Command created with free_memory = false is alive for as long as its
\* caller has not called free() on it.
C15_CallerOwned ==
  holdsReference => life[subCmd] = "alive"

\* C16: a destructor that has started completes, and when it has completed
\* the event loop thread, if connect() started one, has ended.
C16_DtorCompletes ==
  /\ (ctlpc \in {"dtor_stop", "dtor_join"}) ~> (ctlpc = "destroyed")
  /\ [](ctlpc = "destroyed" => bgpc \in {"notstarted", "done"})

C16_Witness ==
  /\ ctlpc = "destroyed"
  /\ bgpc = "done"
  /\ ~stopCalled
  /\ connect_state_ = DISCONNECTED

\* C17: once the event loop thread has marked exited, no application thread is
\* still blocked in wait().
C17_AllWaitersReleased ==
  exited_ => (ctlpc # "wait_blocked" /\ w2pc # "wait_blocked")

\* C18 as claimed: in every step in which a user callback is invoked, the
\* event loop thread invokes it.
C18_CallbackOnLoopThread ==
  [][\A c \in Cmds :
       cbCount'[c] > cbCount[c] => ~(subpc = "cc_invoke" /\ subpc' # "cc_invoke")]_vars

\* C18 as amended: a user callback is invoked by the event loop thread, or by
\* the submitting thread inside createCommand while the object is not running
\* (the submission is refused).
C18_CallbackThread ==
  [][\A c \in Cmds :
       cbCount'[c] > cbCount[c] =>
         \/ ~(subpc = "cc_invoke" /\ subpc' # "cc_invoke")
         \/ (c = subCmd /\ ~running_)]_vars

C18_Witness ==
  \E c, d \in Cmds :
    /\ resolvedBy[c] = "reply" /\ cbCount[c] = 1
    /\ resolvedBy[d] = "refused" /\ cbCount[d] = 1

\* C19: when the state the event loop thread read after waiting for the connect
\* outcome is not CONNECTED, the thread is on its way out or has ended: the
\* watchers were never started, running_ is false (it is false from the start
\* and only this thread sets it), and exited_ is set before the thread ends.
C19_NeverRunning ==
  observedState \notin {NOT_YET_CONNECTED, CONNECTED} =>
    /\ ~running_
    /\ ~watchersStarted
    /\ bgpc \in {"err_exited", "err_running", "done"}
    /\ bgpc \in {"err_running", "done"} => exited_

C19_Witness ==
  /\ observedState = CONNECT_ERROR
  /\ bgpc = "done"
  /\ exited_ /\ ~running_
  /\ connectReturned /\ ~connectRet

\* C20: a step that hands a Command to the protocol layer (the Command joins
\* the in-flight exchanges) is taken while the event loop thread does not hold
\* queue_guard_, the lock of the submission queue.
C20_UnlockedWhileSending ==
  [][Len(inflight') > Len(inflight) => lockHolder["queue_guard_"] # "bg"]_vars

IsPrefix(a, b) == Len(a) <= Len(b) /\ \A i \in 1..Len(a) : a[i] = b[i]

\* the place of Command c in a log that holds it
Pos(log, c) == CHOOSE i \in 1..Len(log) : log[i] = c

\* C21: the Commands the event loop thread has taken off the submission queue
\* (in processQueuedCommands or in freeAllCommands) are, in order, the first
\* Commands that were pushed, whichever thread pushed them; and of two Commands
\* with repeat_ == 0 and after_ == 0 that the protocol layer accepted, the one
\* accepted first was popped first.
C21_Fifo ==
  /\ IsPrefix(popLog, pushLog)
  /\ \A i, j \in 1..Len(sendLog) :
       (i < j /\ immediate(sendLog[i]) /\ immediate(sendLog[j])) =>
         Pos(popLog, sendLog[i]) < Pos(popLog, sendLog[j])

\* the second thread's Command was created last and pushed first
C21_Witness ==
  /\ pushLog = <<2, 1>>
  /\ popLog = <<2, 1>>
  /\ sendLog = <<2, 1>>
  /\ immediate(1) /\ immediate(2)
  /\ sub2Cmd = 2

\* C22: in the step in which processQueuedCommands pops a Command c: when
\* after_ and repeat_ are both 0, submitToServer is called for c in that step
\* and its timer stays off; otherwise submitToServer is not called, nothing is
\* handed to the protocol layer and the timer of c is armed.  Every other call
\* of submitToServer is made by the expiry of the Command's armed timer, which
\* stays armed when repeat_ > 0 and is off after a single expiry when repeat_ = 0.
C22_SendOrArm ==
  [][/\ (Len(popLog') > Len(popLog) /\ bgpc # "free_all") =>
          LET c == popLog'[Len(popLog')] IN
            IF after_[c] = 0 /\ repeat_[c] = 0
              THEN attempts'[c] = attempts[c] + 1 /\ timer_'[c] = "off"
              ELSE /\ attempts'[c] = attempts[c]
                   /\ inflight' = inflight
                   /\ timer_[c] = "off" /\ timer_'[c] = "armed"
     /\ \A c \in Cmds :
          (attempts'[c] > attempts[c] /\ popLog' = popLog) =>
            /\ timer_[c] = "armed"
            /\ timer_'[c] = (IF repeat_[c] > 0 THEN "armed" ELSE "off")]_vars

\* a delayed Command was popped, sent by its timer and answered, and the timer
\* is off
C22_Witness ==
  \E c \in Cmds :
    /\ kind[c] = "delayed" /\ after_[c] = 1 /\ repeat_[c] = 0
    /\ popLog = <<c>> /\ sendLog = <<c>>
    /\ attempts[c] = 1 /\ timer_[c] = "off"
    /\ reply_status_[c] = OK_REPLY

C24_ReturnsAccepted ==
  [][\A c \in Cmds :
       attempts'[c] > attempts[c] =>
         (submitRet'[c] <=> Len(sendLog') > Len(sendLog))]_vars

\* C25: whenever running_ is true the three watchers have been initialised and
\* started; and whenever a submission has been admitted (createCommand found
\* running_ true and is about to push, or has pushed) they have been too, so
\* the ev_async_send of the push is to a started watcher.
C25_WatchersBeforeRunning ==
  (running_ \/ subpc = "cc_push" \/ sub2pc = "cc_push" \/ pushLog # <<>>) => watchersStarted

C25_Witness ==
  /\ running_ /\ watchersStarted
  /\ sub2pc = "cc_push"
  /\ pushLog = <<1>> /\ sent["watcher_command_"]
  /\ bgpc = "loop_check"

\* C26: the event loop thread calls redisAsyncDisconnect at most once, and the
\* connection state at the call is CONNECTED: there is no call once the state
\* is DISCONNECTED or DISCONNECT_ERROR.
C26_OneDisconnect ==
  /\ Len(asyncDisconnects) <= 1
  /\ \A i \in 1..Len(asyncDisconnects) : asyncDisconnects[i] = CONNECTED
  /\ asyncDisconnects # <<>> => bgpc \in {"ev_drain2", "set_exited", "set_not_running", "done"}

\* stop() with a command in flight: the disconnect was issued, the reply came
\* and the connection closed
C26_Witness ==
  /\ asyncDisconnects = <<CONNECTED>>
  /\ stopCalled
  /\ sendLog # <<>> /\ inflight = <<>>
  /\ connect_state_ = DISCONNECTED
  /\ bgpc = "done"

\* C27: whenever the timer of a repeating Command has sent it, the status of
\* the Command at that send was NO_REPLY.
C27_ResetBeforeResend ==
  \A c \in Cmds : (repeat_[c] > 0 /\ timerStatus[c] # "none") => timerStatus[c] = NO_REPLY

\* C28: in every reachable state, exited_ implies that running_ is false.
C28_ExitedNotRunning ==
  exited_ => ~running_

\* C29: no Command stays in command_queue_ once the event loop thread has
\* ended: every Command pushed was taken off the queue by
\* processQueuedCommands or by the drain of freeAllCommands.
C29_QueueEmptyAfterExit ==
  bgpc = "done" => command_queue_ = <<>>

\* C30: once disconnectedCallback has set the state of a running connection to
\* DISCONNECTED or DISCONNECT_ERROR, the event loop thread leaves its loop,
\* drains and sets exited_, whether or not the application calls stop().
C30_DisconnectExits ==
  (running_ /\ connect_state_ \in {DISCONNECTED, DISCONNECT_ERROR}) ~> exited_

\* the connection was lost while running and the event loop thread has ended
\* although no thread of the application called stop() or the destructor
C30_Witness ==
  /\ exited_ /\ bgpc = "done"
  /\ observedState = CONNECTED
  /\ connect_state_ = DISCONNECT_ERROR
  /\ ~stopCalled
  /\ ctlpc = "idle"

\* C31: the locks are taken in one order. In no reachable state does the thread
\* in connect() hold running_lock_ and wait for connect_lock_ while the event
\* loop thread holds connect_lock_ and waits for running_lock_ or exit_lock_,
\* and in no reachable state do two threads each hold one of queue_guard_ and
\* free_queue_guard_.
C31_LockOrder ==
  /\ ~ /\ ctlpc = "conn_pred"
        /\ lockHolder["running_lock_"] = "ctl"
        /\ lockHolder["connect_lock_"] = "bg"
        /\ \/ bgpc = "err_running"
           \/ bgpc = "err_exited" /\ ~Free("exit_lock_")
  /\ ~ /\ ~Free("queue_guard_")
        /\ ~Free("free_queue_guard_")
        /\ lockHolder["queue_guard_"] # lockHolder["free_queue_guard_"]

====
